---- MODULE Spec2Model ----
(***************************************************************************)
(* Model of @vsce/bundler: the content hasher (computeProjectHash), the    *)
(* build coordinator (bundleExtension) with its incremental build cache,   *)
(* and the compatibility scanner (validateWebCompatibility).               *)
(*                                                                         *)
(* Text is a sequence of symbols.  A path is a sequence of one-character   *)
(* strings.  A digest (the 64 hex characters sha256Hex returns) is one     *)
(* positive number, a fixed-width block, so that the lexicographic order   *)
(* of digests is the order of the numbers and joining digests is listing   *)
(* them; the symbol 0 inside a stored text is a whitespace character.      *)
(***************************************************************************)
EXTENDS Integers, Sequences, FiniteSets, TLC

\* ------------------------------------------------------------------ bounds

\* Byte values a file's content is made of (a content is empty or one byte).
MaxByte == 1
\* The largest number of source files a project tree of HashSpec holds.
MaxFiles == 2
\* The resolution of the clock: ticks per millisecond.
TicksPerMs == 4
\* The longest an invocation takes, in ticks.
MaxElapsed == 4
\* The most lines the scanned files of ScanSpec hold together.
MaxLines == 3

\* ------------------------------------------------------------------- paths

Str_ts    == <<".", "t", "s">>
Str_tsx   == <<".", "t", "s", "x">>
Str_json  == <<".", "j", "s", "o", "n">>

\* "extension.ts", "package.json", shortened to e.ts and p.json.
EntryTs     == <<"e", ".", "t", "s">>
PackageJson == <<"p", ".", "j", "s", "o", "n">>
ViewTsx     == <<"v", ".", "t", "s", "x">>
IconPng     == <<"i", ".", "p", "n", "g">>
\* A source file beside the output directory whose name starts like it.
OutlineTs   == <<"o", "u", "t", "l", ".", "t", "s">>
\* A file inside the output directory.
OutGenTs    == <<"o", "u", "t", "/", "g", ".", "t", "s">>

ProjectDir == <<"/", "p">>
OutDirName == <<"o", "u", "t">>

\* @std/path join of a directory and a plain relative name.
join(dir, name) == IF name = << >> THEN dir ELSE dir \o <<"/">> \o name

\* String.prototype.startsWith
startsWith(s, prefix) ==
  /\ Len(prefix) <= Len(s)
  /\ SubSeq(s, 1, Len(prefix)) = prefix

endsWith(s, suffix) ==
  /\ Len(suffix) <= Len(s)
  /\ SubSeq(s, Len(s) - Len(suffix) + 1, Len(s)) = suffix

\* entry.path.match(/\.(ts|tsx|json)$/)
matchesSourceExt(path) ==
  endsWith(path, Str_ts) \/ endsWith(path, Str_tsx) \/ endsWith(path, Str_json)

\* ------------------------------------------------------------------ hasher

Bytes == 1..MaxByte
\* File contents: the empty file and the one-byte files.
Contents == {<< >>} \cup {<<b>> : b \in Bytes}

\* The radix of the digest numbering: larger than every symbol hashed.
Radix == MaxByte + 2

RECURSIVE Numbering(_)
Numbering(data) ==
  IF data = << >> THEN 0
  ELSE Head(data) + Radix * Numbering(Tail(data))

\* sha256Hex: a digest of the data.  SHA-256 is idealised as collision free:
\* the digest is the bijective base-Radix numbering of the data, plus one,
\* which is different for different data (all symbols are in 1..Radix).
sha256Hex(data) == 1 + Numbering(data)

RECURSIVE Insert(_, _)
Insert(x, sorted) ==
  IF sorted = << >> THEN <<x>>
  ELSE IF x <= Head(sorted) THEN <<x>> \o sorted
  ELSE <<Head(sorted)>> \o Insert(x, Tail(sorted))

\* Array.prototype.sort on digests (equal-width strings: numeric order).
RECURSIVE sort(_)
sort(xs) == IF xs = << >> THEN << >> ELSE Insert(Head(xs), sort(Tail(xs)))

\* The loop of computeProjectHash without the test of line 35: the files
\* inside the output directory are hashed like any other.
RECURSIVE fileHashesOfAll(_, _, _)
fileHashesOfAll(files, entries, outPath) ==
  IF entries = << >> THEN << >>
  ELSE LET path == join(ProjectDir, Head(entries))
           rest == fileHashesOfAll(files, Tail(entries), outPath)
       IN  IF ~matchesSourceExt(path) THEN rest
           ELSE <<sha256Hex(files[Head(entries)])>> \o rest

\* The loop of computeProjectHash over the entries walk() yields, in the
\* order it yields them: the digests pushed to fileHashes.
RECURSIVE fileHashes(_, _, _)
fileHashes(files, entries, outPath) ==
  IF entries = << >> THEN << >>
  ELSE LET path == join(ProjectDir, Head(entries))
           rest == fileHashes(files, Tail(entries), outPath)
       IN  IF startsWith(path, outPath) THEN rest
           ELSE IF ~matchesSourceExt(path) THEN rest
           ELSE <<sha256Hex(files[Head(entries)])>> \o rest

\* computeProjectHash with the digests joined in the order of the walk.
computeProjectHashUnsorted(files, entries, outDir) ==
  LET outPath  == join(ProjectDir, outDir)
      combined == fileHashes(files, entries, outPath)
  IN  <<sha256Hex(combined)>>

\* computeProjectHash(projectDir, outDir) on the files of the project, walked
\* in the order `entries`; the result is a text of one digest.
computeProjectHash(files, entries, outDir) ==
  LET outPath  == join(ProjectDir, outDir)
      combined == sort(fileHashes(files, entries, outPath))
  IN  <<sha256Hex(combined)>>

\* The sequences that list each element of a set once.
RECURSIVE Listings(_)
Listings(S) ==
  IF S = {} THEN {<< >>}
  ELSE UNION { {<<x>> \o rest : rest \in Listings(S \ {x})} : x \in S }

\* The orders in which walk() may yield the files of a tree.
WalkOrders(files) == Listings(DOMAIN files)

\* ------------------------------------------------------------ file system

VARIABLES
  tree,         \* the project's files outside the build's own: path -> content
  artifact,     \* the file at bundlePath
  sourceMap,    \* the file at bundlePath + ".map"
  cacheRecord   \* the file at outDir/.build-cache.json

\* ------------------------------------------------- bundleExtension's frame

VARIABLES
  pc,           \* where the invocation stands: the await it is suspended at
  opts,         \* the options of the invocation
  currentHash,  \* let currentHash
  bundleCode,   \* let bundleCode
  messages,     \* const messages
  logged,       \* what the log sink was called with
  errLogged,    \* what the logError sink was called with
  result        \* the BundleResult returned

\* ------------------------------------------------------------------ history

VARIABLES
  trace,        \* what happened in the invocation so far
  before,       \* the build's files as they were when the invocation started
  prev,         \* the invocation before this one, and what was edited between
  last          \* the last invocation that ended, and what was edited since

\* --------------------------------------------------------- content hasher

VARIABLES
  hashed,       \* HashSpec: the result of the last computeProjectHash call
  hashedBefore, \* HashSpec: the result of the call before the last mutation
  mutation      \* HashSpec: the last mutation of the tree

\* ------------------------------------------------- compatibility scanner

VARIABLES
  lastIndex,    \* DENO_NS_RE.lastIndex, kept by the module between calls
  issues,       \* what the last validateWebCompatibility call returned
  scanned,      \* ScanSpec: the walk order and the lastIndex the last call began with
  previous      \* ScanSpec: the call before the last one, nothing edited in between

\* ------------------------------------------- a second invocation, a walk

VARIABLES
  other,        \* PairSpec: the invocation with another output directory
  walking       \* WalkSpec: the loop of validateWebCompatibility under way

fsVars    == <<tree, artifact, sourceMap, cacheRecord>>
frameVars == <<pc, opts, currentHash, bundleCode, messages, logged, errLogged, result>>
histVars  == <<trace, before, prev, last>>
hashVars  == <<hashed, hashedBefore, mutation>>
scanVars  == <<lastIndex, issues, scanned, previous>>
otherVars == <<other>>
walkVars  == <<walking>>
vars      == <<fsVars, frameVars, histVars, hashVars, scanVars, otherVars, walkVars>>

\* ------------------------------------------------------------ the project

\* The source files of the project bundleExtension is run on, and what
\* their contents may be edited to.
SrcPaths    == {EntryTs, OutlineTs}
SrcContents == {<< >>, <<1>>}

OutFileName == <<"e", ".", "j", "s">>

NoCode == [from |-> << >>, minified |-> FALSE]
NoFile == [exists |-> FALSE, from |-> << >>, minified |-> FALSE]
NoText == [exists |-> FALSE, text |-> << >>]
NoMap  == [exists |-> FALSE]

\* A file holding the code.
fileOf(code) == [exists |-> TRUE, from |-> code.from, minified |-> code.minified]

\* The size Deno.stat reports for a file holding code built from a tree.
byteLength(file) ==
  Cardinality(DOMAIN file.from) + (IF file.minified THEN 1 ELSE 2)

\* The options of bundleExtension that the model varies, and their defaults.
Options ==
  { o \in [useCache : BOOLEAN, verbose : BOOLEAN, quiet : BOOLEAN,
           minify : BOOLEAN, minifier : {"esbuild", "terser"}] :
      ~o.minify => o.minifier = "esbuild" }

DefaultOptions ==
  [useCache |-> TRUE, verbose |-> FALSE, quiet |-> FALSE,
   minify |-> FALSE, minifier |-> "esbuild"]

\* The artifact's path without the output directory.
bundlePathInProjectDir == join(ProjectDir, OutFileName)

bundlePath == join(join(ProjectDir, OutDirName), OutFileName)

NoResult ==
  [bundlePath |-> << >>, size |-> 0, buildTimeMs |-> 0, fromCache |-> FALSE,
   messages |-> << >>]

\* Math.round of an elapsed time given in ticks.
roundMs(ticks) == (2 * ticks + TicksPerMs) \div (2 * TicksPerMs)

IsSpace(c) == c = 0

\* String.prototype.trim
RECURSIVE trimStart(_)
trimStart(text) ==
  IF text # << >> /\ IsSpace(Head(text)) THEN trimStart(Tail(text)) ELSE text

RECURSIVE trimEnd(_)
trimEnd(text) ==
  IF text # << >> /\ IsSpace(text[Len(text)])
  THEN trimEnd(SubSeq(text, 1, Len(text) - 1)) ELSE text

trim(text) == trimEnd(trimStart(text))

\* ------------------------------------------------------------------ history

NoTrace ==
  [hashOk |-> FALSE, readOk |-> FALSE, matched |-> FALSE, statOk |-> FALSE,
   bundled |-> FALSE, minifierMissing |-> FALSE, wroteMap |-> FALSE,
   wroteArtifact |-> FALSE, wroteRecord |-> FALSE, thrownAt |-> "none"]

\* cached: the invocation returned a result and ran with useCache; hashOk: it
\* obtained a fingerprint; edited: the one source file edited since it ended.
\* The history is forgotten (NoLast) once more than one source edit, or any
\* change of the build's own files, has followed the invocation.
NoLast == [cached |-> FALSE, hashOk |-> FALSE, edited |-> << >>]
NoPrev == [cached |-> FALSE, hashOk |-> FALSE, edited |-> << >>, sameOpts |-> FALSE]

NoBefore ==
  [tree |-> << >>, artifact |-> NoFile, sourceMap |-> NoMap, cacheRecord |-> NoText]

NoMutation == [kind |-> "none", path |-> << >>, to |-> << >>]
NotHashed  == [valid |-> FALSE, fp |-> << >>, after |-> NoMutation]

NoOther == [pc |-> "idle", currentHash |-> << >>]

NotWalking ==
  [active |-> FALSE, ended |-> FALSE, order |-> << >>, fill |-> 0, from |-> 0,
   fillLeft |-> 0, entries |-> << >>, count |-> 0, read |-> 0]

Idle == pc \in {"idle", "done", "failed"}

NotScanned == [valid |-> FALSE, order |-> << >>, from |-> 0]
NoPrevious == [valid |-> FALSE, order |-> << >>, issues |-> << >>]

\* --------------------------------------------------------- bundleExtension

\* logMessage keeping a message only when it also logs it.
logMessageWhenEnabled(msgs) ==
  /\ logged' = IF ~opts.quiet THEN logged \o msgs ELSE logged
  /\ messages' = IF ~opts.quiet THEN messages \o msgs ELSE messages

\* const logMessage = (msg) => { if (logEnabled) log(msg); messages.push(msg) }
\* applied to each of msgs in turn.
logMessage(msgs) ==
  /\ logged' = IF ~opts.quiet THEN logged \o msgs ELSE logged
  /\ messages' = messages \o msgs

\* The catch of the build's try block: log the failure and rethrow.
throw(at, tr) ==
  /\ errLogged' = errLogged \o <<"Build failed:", at>>
  /\ trace' = [tr EXCEPT !.thrownAt = at]
  /\ last' = NoLast
  /\ pc' = "failed"

\* The guard without the fingerprint test: if (useCache).
cacheEnabledWithoutHash(useCache, hash) == useCache

\* The guard with the fingerprint test inverted.
cacheEnabledInverted(useCache, hash) == useCache /\ hash = << >>

\* if (useCache && currentHash): the guard of the cache check and of the
\* cache record write.
cacheEnabled(useCache, hash) == useCache /\ hash # << >>

\* The comparison negated: cachedHash.trim() !== currentHash
recordMatchesInverted(cachedHash, hash) == trim(cachedHash) # hash

\* cachedHash.trim() === currentHash
recordMatches(cachedHash, hash) == trim(cachedHash) = hash

\* The call, up to the first await after ensureDir(outDirectory).
bundleExtension(o) ==
  /\ Idle
  /\ pc' = "hash"
  /\ opts' = o
  /\ currentHash' = << >>
  /\ bundleCode' = NoCode
  /\ messages' = << >>
  /\ logged' = << >>
  /\ errLogged' = << >>
  /\ result' = NoResult
  /\ trace' = NoTrace
  /\ before' = [tree |-> tree, artifact |-> artifact, sourceMap |-> sourceMap,
                cacheRecord |-> cacheRecord]
  /\ prev' = IF last.cached
             THEN [cached |-> TRUE, hashOk |-> last.hashOk,
                   edited |-> last.edited, sameOpts |-> o = opts]
             ELSE NoPrev
  /\ last' = NoLast
  /\ UNCHANGED <<fsVars, hashVars, scanVars, otherVars, walkVars>>

\* currentHash = await computeProjectHash(projectDir, outDir)
HashComputed ==
  /\ pc = "hash"
  /\ \E order \in WalkOrders(tree) :
       currentHash' = computeProjectHash(tree, order, OutDirName)
  /\ trace' = [trace EXCEPT !.hashOk = TRUE]
  /\ pc' = IF cacheEnabled(opts.useCache, currentHash') THEN "readCache" ELSE "bundle"
  /\ UNCHANGED <<fsVars, opts, bundleCode, messages, logged, errLogged, result,
                 before, prev, last, hashVars, scanVars, otherVars, walkVars>>

\* computeProjectHash throws: catch { messages.push(...) }
HashFailed ==
  /\ pc = "hash"
  /\ messages' = Append(messages, "Failed to compute project hash")
  /\ pc' = IF cacheEnabled(opts.useCache, currentHash) THEN "readCache" ELSE "bundle"
  /\ UNCHANGED <<fsVars, opts, currentHash, bundleCode, logged, errLogged, result,
                 histVars, hashVars, scanVars, otherVars, walkVars>>

\* const cachedHash = await Deno.readTextFile(cachePath), and the comparison
ReadCache ==
  /\ pc = "readCache"
  /\ IF cacheRecord.exists
     THEN IF recordMatches(cacheRecord.text, currentHash)
          THEN /\ logMessage(IF opts.verbose THEN <<"No changes detected">> ELSE << >>)
               /\ trace' = [trace EXCEPT !.readOk = TRUE, !.matched = TRUE]
               /\ pc' = "stat"
          ELSE /\ trace' = [trace EXCEPT !.readOk = TRUE]
               /\ pc' = "bundle"
               /\ UNCHANGED <<messages, logged>>
     ELSE /\ pc' = "bundle"
          /\ UNCHANGED <<trace, messages, logged>>
  /\ UNCHANGED <<fsVars, opts, currentHash, bundleCode, errLogged, result,
                 before, prev, last, hashVars, scanVars, otherVars, walkVars>>

\* The cache hit that writes the fingerprint back to the cache record.
StatCachedRewritesRecord ==
  /\ pc = "stat"
  /\ IF artifact.exists
     THEN /\ result' = [bundlePath |-> bundlePath, size |-> byteLength(artifact),
                        buildTimeMs |-> 0, fromCache |-> TRUE,
                        messages |-> messages]
          /\ trace' = [trace EXCEPT !.statOk = TRUE]
          /\ last' = [cached |-> opts.useCache, hashOk |-> trace.hashOk,
                      edited |-> << >>]
          /\ cacheRecord' = [exists |-> TRUE, text |-> currentHash]
          /\ pc' = "done"
     ELSE /\ pc' = "bundle"
          /\ UNCHANGED <<result, trace, last, cacheRecord>>
  /\ UNCHANGED <<tree, artifact, sourceMap, opts, currentHash, bundleCode,
                 messages, logged, errLogged, before, prev, hashVars, scanVars, otherVars, walkVars>>

\* The cache hit returned without looking for the artifact.
StatCachedUnchecked ==
  /\ pc = "stat"
  /\ result' = [bundlePath |-> bundlePath, size |-> 0, buildTimeMs |-> 0,
                fromCache |-> TRUE, messages |-> messages]
  /\ trace' = [trace EXCEPT !.statOk = TRUE]
  /\ last' = [cached |-> opts.useCache, hashOk |-> trace.hashOk, edited |-> << >>]
  /\ pc' = "done"
  /\ UNCHANGED <<fsVars, opts, currentHash, bundleCode, messages, logged,
                 errLogged, before, prev, hashVars, scanVars, otherVars, walkVars>>

\* const { size } = await Deno.stat(bundlePath), and the cache-hit return
StatCached ==
  /\ pc = "stat"
  /\ IF artifact.exists
     THEN /\ result' = [bundlePath |-> bundlePath, size |-> byteLength(artifact),
                        buildTimeMs |-> 0, fromCache |-> TRUE,
                        messages |-> messages]
          /\ trace' = [trace EXCEPT !.statOk = TRUE]
          /\ last' = [cached |-> opts.useCache, hashOk |-> trace.hashOk,
                      edited |-> << >>]
          /\ pc' = "done"
     ELSE /\ pc' = "bundle"
          /\ UNCHANGED <<result, trace, last>>
  /\ UNCHANGED <<fsVars, opts, currentHash, bundleCode, messages, logged,
                 errLogged, before, prev, hashVars, scanVars, otherVars, walkVars>>

\* const result = await bundler(entry) resolves
Bundled ==
  /\ pc = "bundle"
  /\ bundleCode' = [from |-> tree, minified |-> FALSE]
  /\ trace' = [trace EXCEPT !.bundled = TRUE]
  /\ IF opts.minify
     THEN /\ logMessage(IF opts.verbose THEN <<"Minifying">> ELSE << >>)
          /\ pc' = "import"
     ELSE /\ pc' = "writeArtifact"
          /\ UNCHANGED <<messages, logged>>
  /\ UNCHANGED <<fsVars, opts, currentHash, errLogged, result, before, prev,
                 last, hashVars, scanVars, otherVars, walkVars>>

\* The failed build removing the stale artifact before it rethrows.
BundleFailedCleansUp ==
  /\ pc = "bundle"
  /\ throw("bundle", trace)
  /\ artifact' = NoFile
  /\ UNCHANGED <<tree, sourceMap, cacheRecord, opts, currentHash, bundleCode,
                 messages, logged, result, before, prev, hashVars, scanVars, otherVars, walkVars>>

\* await bundler(entry) rejects
BundleFailed ==
  /\ pc = "bundle"
  /\ throw("bundle", trace)
  /\ UNCHANGED <<fsVars, opts, currentHash, bundleCode, messages, logged, result,
                 before, prev, hashVars, scanVars, otherVars, walkVars>>

\* await import("npm:esbuild@0.19.2") or await import("npm:terser@5.27.0")
MinifierLoaded ==
  /\ pc = "import"
  /\ pc' = "transform"
  /\ UNCHANGED <<fsVars, opts, currentHash, bundleCode, messages, logged,
                 errLogged, result, histVars, hashVars, scanVars, otherVars, walkVars>>

\* The import of the minifier fails: esbuild's is not caught, terser's is.
MinifierUnavailable ==
  /\ pc = "import"
  /\ IF opts.minifier = "esbuild"
     THEN /\ throw("import", [trace EXCEPT !.minifierMissing = TRUE])
          /\ UNCHANGED <<messages, logged>>
     ELSE /\ logMessage(<<"terser unavailable">>)
          /\ trace' = [trace EXCEPT !.minifierMissing = TRUE]
          /\ pc' = "writeArtifact"
          /\ UNCHANGED <<errLogged, last>>
  /\ UNCHANGED <<fsVars, opts, currentHash, bundleCode, result, before, prev,
                 hashVars, scanVars, otherVars, walkVars>>

\* await esbuild.transform(...) or await terser.minify(...) resolves; terser's
\* result may lack the code or the map.
Transformed ==
  /\ pc = "transform"
  /\ IF opts.minifier = "esbuild"
     THEN /\ bundleCode' = [bundleCode EXCEPT !.minified = TRUE]
          /\ pc' = "writeMap"
     ELSE \E hasCode, hasMap \in BOOLEAN :
          /\ bundleCode' = [bundleCode EXCEPT !.minified = hasCode]
          /\ pc' = IF hasMap THEN "writeMap" ELSE "writeArtifact"
  /\ UNCHANGED <<fsVars, opts, currentHash, messages, logged, errLogged, result,
                 histVars, hashVars, scanVars, otherVars, walkVars>>

\* await esbuild.transform(...) or await terser.minify(...) rejects
TransformFailed ==
  /\ pc = "transform"
  /\ throw("transform", trace)
  /\ UNCHANGED <<fsVars, opts, currentHash, bundleCode, messages, logged, result,
                 before, prev, hashVars, scanVars, otherVars, walkVars>>

\* await Deno.writeTextFile(join(outDirectory, `${outFile}.map`), map)
WriteMap ==
  /\ pc = "writeMap"
  /\ sourceMap' = [exists |-> TRUE]
  /\ trace' = [trace EXCEPT !.wroteMap = TRUE]
  /\ pc' = "writeArtifact"
  /\ UNCHANGED <<tree, artifact, cacheRecord, opts, currentHash, bundleCode,
                 messages, logged, errLogged, result, before, prev, last,
                 hashVars, scanVars, otherVars, walkVars>>

\* The persist step writing the cache record whatever the guard says.
WriteArtifactThenRecord ==
  /\ pc = "writeArtifact"
  /\ artifact' = fileOf(bundleCode)
  /\ trace' = [trace EXCEPT !.wroteArtifact = TRUE]
  /\ pc' = "writeCache"
  /\ UNCHANGED <<tree, sourceMap, cacheRecord, opts, currentHash, bundleCode,
                 messages, logged, errLogged, result, before, prev, last,
                 hashVars, scanVars, otherVars, walkVars>>

\* The two writes of the persist step in the other order: the cache record
\* first, then the artifact.
WriteArtifactAfterRecord ==
  /\ pc = "writeArtifact"
  /\ IF cacheEnabled(opts.useCache, currentHash) /\ ~trace.wroteRecord
     THEN /\ cacheRecord' = [exists |-> TRUE, text |-> currentHash]
          /\ trace' = [trace EXCEPT !.wroteRecord = TRUE]
          /\ pc' = "writeArtifact"
          /\ UNCHANGED artifact
     ELSE /\ artifact' = fileOf(bundleCode)
          /\ trace' = [trace EXCEPT !.wroteArtifact = TRUE]
          /\ pc' = "statNew"
          /\ UNCHANGED cacheRecord
  /\ UNCHANGED <<tree, sourceMap, opts, currentHash, bundleCode, messages, logged,
                 errLogged, result, before, prev, last, hashVars, scanVars, otherVars, walkVars>>

\* await Deno.writeTextFile(bundlePath, bundleCode)
WriteArtifact ==
  /\ pc = "writeArtifact"
  /\ artifact' = fileOf(bundleCode)
  /\ trace' = [trace EXCEPT !.wroteArtifact = TRUE]
  /\ pc' = IF cacheEnabled(opts.useCache, currentHash) THEN "writeCache" ELSE "statNew"
  /\ UNCHANGED <<tree, sourceMap, cacheRecord, opts, currentHash, bundleCode,
                 messages, logged, errLogged, result, before, prev, last,
                 hashVars, scanVars, otherVars, walkVars>>

\* await Deno.writeTextFile(cachePath, currentHash)
WriteCache ==
  /\ pc = "writeCache"
  /\ cacheRecord' = [exists |-> TRUE, text |-> currentHash]
  /\ trace' = [trace EXCEPT !.wroteRecord = TRUE]
  /\ pc' = "statNew"
  /\ UNCHANGED <<tree, artifact, sourceMap, opts, currentHash, bundleCode,
                 messages, logged, errLogged, result, before, prev, last,
                 hashVars, scanVars, otherVars, walkVars>>

\* The return of a rebuild that reports whether verbose is set or not.
StatBuiltReporting ==
  /\ pc = "statNew"
  /\ logMessage(<<"Bundle size", "Build completed">>)
  /\ \E elapsed \in 0..MaxElapsed :
       result' = [bundlePath |-> bundlePath, size |-> byteLength(artifact),
                  buildTimeMs |-> roundMs(elapsed), fromCache |-> FALSE,
                  messages |-> messages']
  /\ last' = [cached |-> opts.useCache, hashOk |-> trace.hashOk, edited |-> << >>]
  /\ pc' = "done"
  /\ UNCHANGED <<fsVars, opts, currentHash, bundleCode, errLogged, trace, before,
                 prev, hashVars, scanVars, otherVars, walkVars>>

\* const { size } = await Deno.stat(bundlePath); the elapsed time, the
\* verbose report and the return of a rebuild.
StatBuilt ==
  /\ pc = "statNew"
  /\ logMessage(IF opts.verbose THEN <<"Bundle size", "Build completed">> ELSE << >>)
  /\ \E elapsed \in 0..MaxElapsed :
       result' = [bundlePath |-> bundlePath, size |-> byteLength(artifact),
                  buildTimeMs |-> roundMs(elapsed), fromCache |-> FALSE,
                  messages |-> messages']
  /\ last' = [cached |-> opts.useCache, hashOk |-> trace.hashOk, edited |-> << >>]
  /\ pc' = "done"
  /\ UNCHANGED <<fsVars, opts, currentHash, bundleCode, errLogged, trace, before,
                 prev, hashVars, scanVars, otherVars, walkVars>>

\* ------------------------------------------------------------- environment

\* The texts something other than the build may leave in the cache record:
\* an empty text, or the record with white space added at its end or at its
\* start.
RecordEdits ==
  {<< >>} \cup (IF cacheRecord.exists
                THEN {cacheRecord.text \o <<0>>, <<0>> \o cacheRecord.text}
                ELSE {})

\* Once something outside the invocation acts, the frame of the invocation
\* that ended is gone; its options stay known.
FrameDropped ==
  /\ pc' = "idle"
  /\ currentHash' = << >>
  /\ bundleCode' = NoCode
  /\ messages' = << >>
  /\ logged' = << >>
  /\ errLogged' = << >>
  /\ result' = NoResult
  /\ trace' = NoTrace
  /\ before' = NoBefore
  /\ prev' = NoPrev
  /\ UNCHANGED opts

\* Between invocations a source file is edited.
EditSource(path, content) ==
  /\ Idle
  /\ content # tree[path]
  /\ tree' = [tree EXCEPT ![path] = content]
  /\ last' = IF last.cached /\ last.edited = << >>
             THEN [last EXCEPT !.edited = path] ELSE NoLast
  /\ FrameDropped
  /\ UNCHANGED <<artifact, sourceMap, cacheRecord, hashVars, scanVars, otherVars, walkVars>>

\* Between invocations the artifact is removed.
RemoveArtifact ==
  /\ Idle
  /\ artifact.exists
  /\ artifact' = NoFile
  /\ last' = NoLast
  /\ FrameDropped
  /\ UNCHANGED <<tree, sourceMap, cacheRecord, hashVars, scanVars, otherVars, walkVars>>

\* Between invocations the cache record is removed.
RemoveRecord ==
  /\ Idle
  /\ cacheRecord.exists
  /\ cacheRecord' = NoText
  /\ last' = NoLast
  /\ FrameDropped
  /\ UNCHANGED <<tree, artifact, sourceMap, hashVars, scanVars, otherVars, walkVars>>

\* Between invocations the cache record is overwritten.
WriteRecord(text) ==
  /\ Idle
  /\ Len(text) <= 2
  /\ ~(cacheRecord.exists /\ cacheRecord.text = text)
  /\ cacheRecord' = [exists |-> TRUE, text |-> text]
  /\ last' = NoLast
  /\ FrameDropped
  /\ UNCHANGED <<tree, artifact, sourceMap, hashVars, scanVars, otherVars, walkVars>>

\* ----------------------------------------------------------- specification

\* The options the invocations of Spec are called with: the log sink is on.
BuildOptions == {o \in Options : ~o.quiet}

Init ==
  /\ tree \in [SrcPaths -> SrcContents]
  /\ artifact = NoFile
  /\ sourceMap = NoMap
  /\ cacheRecord = NoText
  /\ pc = "idle"
  /\ opts = DefaultOptions
  /\ currentHash = << >>
  /\ bundleCode = NoCode
  /\ messages = << >>
  /\ logged = << >>
  /\ errLogged = << >>
  /\ result = NoResult
  /\ trace = NoTrace
  /\ before = NoBefore
  /\ prev = NoPrev
  /\ last = NoLast
  /\ hashed = NotHashed
  /\ hashedBefore = NotHashed
  /\ mutation = NoMutation
  /\ lastIndex = 0
  /\ issues = << >>
  /\ scanned = NotScanned
  /\ previous = NoPrevious
  /\ other = NoOther
  /\ walking = NotWalking

\* The steps of an invocation after the call, from one await to the next.
Steps ==
  \/ HashComputed
  \/ HashFailed
  \/ ReadCache
  \/ StatCached
  \/ Bundled
  \/ BundleFailed
  \/ MinifierLoaded
  \/ MinifierUnavailable
  \/ Transformed
  \/ TransformFailed
  \/ WriteMap
  \/ WriteArtifact
  \/ WriteCache
  \/ StatBuilt

Build ==
  \/ \E o \in BuildOptions : bundleExtension(o)
  \/ Steps

Next ==
  \/ Build
  \/ \E path \in SrcPaths, content \in SrcContents : EditSource(path, content)
  \/ RemoveArtifact
  \/ RemoveRecord
  \/ \E text \in RecordEdits : WriteRecord(text)

Spec == Init /\ [][Next]_vars

\* Invocations and source edits only: nothing but the build writes or removes
\* the artifact, the source map and the cache record.
NextBuilds ==
  \/ Build
  \/ \E path \in SrcPaths, content \in SrcContents : EditSource(path, content)

SpecBuilds == Init /\ [][NextBuilds]_vars

\* Invocations only: the source tree stays as it is at the start.
SameTreeSpec == Init /\ [][Build]_vars

\* A source file is edited while the invocation is suspended at an await
\* between the hashing of the tree and the bundler's reading of it.
EditWhileSuspended(path, content) ==
  /\ pc \in {"readCache", "stat", "bundle"}
  /\ content # tree[path]
  /\ tree' = [tree EXCEPT ![path] = content]
  /\ UNCHANGED <<artifact, sourceMap, cacheRecord, frameVars, histVars,
                 hashVars, scanVars, otherVars, walkVars>>

\* Invocations, and source edits between them and during them.
NextRace ==
  \/ Build
  \/ \E path \in SrcPaths, content \in SrcContents : EditSource(path, content)
  \/ \E path \in SrcPaths, content \in SrcContents :
       EditWhileSuspended(path, content)

RaceSpec == Init /\ [][NextRace]_vars

\* Invocations with every option, quiet included, and source edits.
NextLog ==
  \/ \E o \in Options : bundleExtension(o)
  \/ Steps
  \/ \E path \in SrcPaths, content \in SrcContents : EditSource(path, content)

LogSpec == Init /\ [][NextLog]_vars

\* ------------------------------------------------ the hasher on its own

\* ".build-cache.json", shortened to .b.json.
CacheFileName == <<".", "b", ".", "j", "s", "o", "n">>

\* The files a build writes, relative to the project directory: the
\* artifact, its source map and the cache record.
OutArtifact  == join(OutDirName, OutFileName)
OutSourceMap == join(OutDirName, OutFileName \o <<".", "m", "a", "p">>)
OutCache     == join(OutDirName, CacheFileName)

\* The files a project tree of HashSpec may hold.
HashPaths ==
  {EntryTs, PackageJson, ViewTsx, IconPng, OutlineTs, OutGenTs,
   OutArtifact, OutSourceMap, OutCache}

HashTrees ==
  UNION { [S -> Contents] : S \in {T \in SUBSET HashPaths : Cardinality(T) <= MaxFiles} }

mutatedTo(kind, path, to) ==
  IF mutation.kind = "none" /\ hashed.valid
  THEN /\ mutation' = [kind |-> kind, path |-> path, to |-> to]
       /\ hashed' = [hashed EXCEPT !.after = NoMutation]
  ELSE /\ mutation' = NoMutation
       /\ hashed' = NotHashed

mutated(kind, path) == mutatedTo(kind, path, << >>)

\* A call of computeProjectHash(projectDir, "out") during which walk() yields
\* the files in the order `order`.
HashProject(order) ==
  /\ hashedBefore' = hashed
  /\ hashed' = [valid |-> TRUE,
                fp |-> computeProjectHash(tree, order, OutDirName),
                after |-> mutation]
  /\ mutation' = NoMutation
  /\ UNCHANGED <<artifact, sourceMap, cacheRecord, tree, frameVars, histVars, scanVars, otherVars, walkVars>>

\* The bytes of one file change.
EditFile(path, content) ==
  /\ path \in DOMAIN tree
  /\ content # tree[path]
  /\ tree' = [tree EXCEPT ![path] = content]
  /\ mutated("edit", path)
  /\ hashedBefore' = NotHashed
  /\ UNCHANGED <<artifact, sourceMap, cacheRecord, frameVars, histVars, scanVars, otherVars, walkVars>>

\* One file is added.
AddFile(path, content) ==
  /\ path \notin DOMAIN tree
  /\ Cardinality(DOMAIN tree) < MaxFiles
  /\ tree' = [p \in DOMAIN tree \cup {path} |-> IF p = path THEN content ELSE tree[p]]
  /\ mutated("add", path)
  /\ hashedBefore' = NotHashed
  /\ UNCHANGED <<artifact, sourceMap, cacheRecord, frameVars, histVars, scanVars, otherVars, walkVars>>

\* One file is removed.
RemoveFile(path) ==
  /\ path \in DOMAIN tree
  /\ tree' = [p \in DOMAIN tree \ {path} |-> tree[p]]
  /\ mutated("remove", path)
  /\ hashedBefore' = NotHashed
  /\ UNCHANGED <<artifact, sourceMap, cacheRecord, frameVars, histVars, scanVars, otherVars, walkVars>>

\* One file is renamed, or moved to another directory.
RenameFile(path, to) ==
  /\ path \in DOMAIN tree
  /\ to \notin DOMAIN tree
  /\ tree' = [p \in (DOMAIN tree \ {path}) \cup {to} |->
                IF p = to THEN tree[path] ELSE tree[p]]
  /\ mutatedTo("rename", path, to)
  /\ hashedBefore' = NotHashed
  /\ UNCHANGED <<artifact, sourceMap, cacheRecord, frameVars, histVars, scanVars, otherVars, walkVars>>

\* Two files exchange their contents.
SwapContents(path, to) ==
  /\ path \in DOMAIN tree
  /\ to \in DOMAIN tree
  /\ tree[path] # tree[to]
  /\ tree' = [tree EXCEPT ![path] = tree[to], ![to] = tree[path]]
  /\ mutatedTo("swap", path, to)
  /\ hashedBefore' = NotHashed
  /\ UNCHANGED <<artifact, sourceMap, cacheRecord, frameVars, histVars, scanVars, otherVars, walkVars>>

HashInit ==
  /\ tree \in HashTrees
  /\ artifact = NoFile
  /\ sourceMap = NoMap
  /\ cacheRecord = NoText
  /\ pc = "idle"
  /\ opts = DefaultOptions
  /\ currentHash = << >>
  /\ bundleCode = NoCode
  /\ messages = << >>
  /\ logged = << >>
  /\ errLogged = << >>
  /\ result = NoResult
  /\ trace = NoTrace
  /\ before = NoBefore
  /\ prev = NoPrev
  /\ last = NoLast
  /\ hashed = NotHashed
  /\ hashedBefore = NotHashed
  /\ mutation = NoMutation
  /\ lastIndex = 0
  /\ issues = << >>
  /\ scanned = NotScanned
  /\ previous = NoPrevious
  /\ other = NoOther
  /\ walking = NotWalking

HashNext ==
  \/ \E order \in WalkOrders(tree) : HashProject(order)
  \/ \E path \in HashPaths, content \in Contents : EditFile(path, content)
  \/ \E path \in HashPaths, content \in Contents : AddFile(path, content)
  \/ \E path \in HashPaths : RemoveFile(path)
  \/ \E path \in HashPaths, to \in HashPaths : RenameFile(path, to)
  \/ \E path \in HashPaths, to \in HashPaths : SwapContents(path, to)

HashSpec == HashInit /\ [][HashNext]_vars

\* ------------------------------------- two invocations on one project

\* The output directory of the second invocation, and its cache record.
CustomOutDirName == <<"c", "-", "o", "u", "t">>
CustomCache      == join(CustomOutDirName, CacheFileName)

\* The files under the project directory as a walk of it finds them: the
\* tree and, once written, the cache record in out/.  (The artifacts and
\* source maps, *.js and *.js.map, are files no walk of the model reads.)
projectFiles ==
  [p \in DOMAIN tree \cup (IF cacheRecord.exists THEN {OutCache} ELSE {}) |->
     IF p = OutCache THEN cacheRecord.text ELSE tree[p]]

\* bundleExtension({projectDir, outDir: "custom-out", useCache: true}) is
\* called on the same project; it is followed at the steps that read or
\* write files under the project directory, on a run that finds no cache
\* record of its own and builds.
OtherCalled ==
  /\ other.pc = "idle"
  /\ other' = [pc |-> "hash", currentHash |-> << >>]
  /\ UNCHANGED <<fsVars, frameVars, histVars, hashVars, scanVars, walkVars>>

\* Its currentHash = await computeProjectHash(projectDir, "custom-out")
OtherHashComputed ==
  /\ other.pc = "hash"
  /\ \E order \in WalkOrders(projectFiles) :
       other' = [pc |-> "writeCache",
                 currentHash |-> computeProjectHash(projectFiles, order,
                                                    CustomOutDirName)]
  /\ UNCHANGED <<fsVars, frameVars, histVars, hashVars, scanVars, walkVars>>

\* Its await Deno.writeTextFile(cachePath, currentHash), after the bundle
\* and the write of custom-out/extension.js.  The text written is one digest:
\* read as a file it is a symbol that can exceed Radix, for which the
\* numbering may give two files one digest, never one file two digests.
OtherWroteCache ==
  /\ other.pc = "writeCache"
  /\ tree' = [p \in DOMAIN tree \cup {CustomCache} |->
                IF p = CustomCache THEN other.currentHash ELSE tree[p]]
  /\ other' = [other EXCEPT !.pc = "done"]
  /\ UNCHANGED <<artifact, sourceMap, cacheRecord, frameVars, histVars,
                 hashVars, scanVars, walkVars>>

\* Invocations on out/ interleaved with one invocation on custom-out/.
NextPair ==
  \/ Build
  \/ OtherCalled
  \/ OtherHashComputed
  \/ OtherWroteCache

PairSpec == Init /\ [][NextPair]_vars

\* ------------------------------------------------ the compatibility scanner

\* The text of a scanned file is a sequence of tokens, each standing for one
\* character of the file: a keyword, a name, a punctuation mark, a blank, a
\* line break or a quote.
IsWs(c)    == c \in {" ", "\n"}
IsQuote(c) == c = "'"
\* The characters \b does not separate: those of names and keywords.
IsWord(c)  == c \in {"import", "from", "require", "Deno", "fs", "vscode", "x"}

\* NODE_BUILTINS: of its 27 names, the two the model uses.
NODE_BUILTINS == <<"fs", "path">>
BUILTIN_SET   == {NODE_BUILTINS[i] : i \in DOMAIN NODE_BUILTINS}

\* The safety limit on the number of files one scan reads.
ScanLimit == 1000

NoMatch == [found |-> FALSE, end |-> 0, specifier |-> << >>]

Least(S) == CHOOSE x \in S : \A y \in S : x <= y

\* The positions of src after i that hold a quote, and those that hold
\* something other than white space.
quotesAfter(src, i)    == {q \in (i + 1)..Len(src) : IsQuote(src[q])}
nonBlanksAfter(src, i) == {k \in (i + 1)..Len(src) : ~IsWs(src[k])}

\* What IMPORT_RE accepts between `import` and the opening quote:
\* \s+(?:[^"']+?\s+from\s+)?  on a text m that holds no quote.  Either m is
\* white space, or m is white space, at least one more character, white
\* space, `from`, white space.
importClause(m) ==
  /\ m # << >>
  /\ IsWs(m[1])
  /\ \/ \A k \in DOMAIN m : IsWs(m[k])
     \/ \E f \in 4..(Len(m) - 1) :
          /\ m[f] = "from"
          /\ IsWs(m[f - 1])
          /\ \A k \in (f + 1)..Len(m) : IsWs(m[k])

\* IMPORT_RE = /import\s+(?:[^"']+?\s+from\s+)?["']([^"']+)["']/g matched at
\* position i: the opening quote is the first quote after `import`, the
\* closing one the next, and the specifier between them is not empty.
IMPORT_RE(src, i) ==
  IF src[i] # "import" \/ quotesAfter(src, i) = {} THEN NoMatch
  ELSE LET q1 == Least(quotesAfter(src, i))
       IN  IF quotesAfter(src, q1) = {} THEN NoMatch
           ELSE LET q2 == Least(quotesAfter(src, q1))
                IN  IF q2 > q1 + 1 /\ importClause(SubSeq(src, i + 1, q1 - 1))
                    THEN [found |-> TRUE, end |-> q2,
                          specifier |-> SubSeq(src, q1 + 1, q2 - 1)]
                    ELSE NoMatch

\* REQUIRE_RE = /require\(\s*["']([^"']+)["']\s*\)/g matched at position i.
REQUIRE_RE(src, i) ==
  IF ~(src[i] = "require" /\ i < Len(src) /\ src[i + 1] = "(") THEN NoMatch
  ELSE IF nonBlanksAfter(src, i + 1) = {} THEN NoMatch
  ELSE LET q1 == Least(nonBlanksAfter(src, i + 1))
       IN  IF ~IsQuote(src[q1]) \/ quotesAfter(src, q1) = {} THEN NoMatch
           ELSE LET q2 == Least(quotesAfter(src, q1))
                IN  IF q2 = q1 + 1 \/ nonBlanksAfter(src, q2) = {} THEN NoMatch
                    ELSE LET close == Least(nonBlanksAfter(src, q2))
                         IN  IF src[close] = ")"
                             THEN [found |-> TRUE, end |-> close,
                                   specifier |-> SubSeq(src, q1 + 1, q2 - 1)]
                             ELSE NoMatch

\* DENO_NS_RE = /\bDeno\./g matched at position i.
DENO_NS_RE(src, i) ==
  /\ src[i] = "Deno"
  /\ i < Len(src)
  /\ src[i + 1] = "."
  /\ (i = 1 \/ ~IsWord(src[i - 1]))

\* src.matchAll(IMPORT_RE): the specifiers captured, from position i on.  The
\* iteration runs on a copy of the expression that starts at its lastIndex,
\* which nothing ever changes from 0.
RECURSIVE matchAllImports(_, _)
matchAllImports(src, i) ==
  IF i > Len(src) THEN << >>
  ELSE LET m == IMPORT_RE(src, i)
       IN  IF m.found THEN <<m.specifier>> \o matchAllImports(src, m.end + 1)
           ELSE matchAllImports(src, i + 1)

\* src.matchAll(REQUIRE_RE), likewise.
RECURSIVE matchAllRequires(_, _)
matchAllRequires(src, i) ==
  IF i > Len(src) THEN << >>
  ELSE LET m == REQUIRE_RE(src, i)
       IN  IF m.found THEN <<m.specifier>> \o matchAllRequires(src, m.end + 1)
           ELSE matchAllRequires(src, i + 1)

\* DENO_NS_RE.test(src) of an expression with the g flag: the search begins
\* at lastIndex (given as the number of characters before it); a match leaves
\* lastIndex behind its end, a failure resets it to 0.
test(src, index) ==
  LET hits == {i \in (index + 1)..Len(src) : DENO_NS_RE(src, i)}
  IN  IF hits = {} THEN [matched |-> FALSE, lastIndex |-> 0]
      ELSE [matched |-> TRUE, lastIndex |-> Least(hits) + 1]

\* The issues of the specifiers that are built-in modules, in order.
RECURSIVE builtinIssues(_, _, _)
builtinIssues(path, kind, specifiers) ==
  IF specifiers = << >> THEN << >>
  ELSE (IF Len(Head(specifiers)) = 1 /\ Head(specifiers)[1] \in BUILTIN_SET
        THEN <<[path |-> path, kind |-> kind, specifier |-> Head(specifiers)[1]]>>
        ELSE << >>)
       \o builtinIssues(path, kind, Tail(specifiers))

\* The body of the loop of validateWebCompatibility for one file: the issues
\* it pushes, and the lastIndex it leaves.
scanFile(path, src, index) ==
  LET deno == test(src, index)
  IN  [issues |->
         builtinIssues(path, "imports", matchAllImports(src, 1))
         \o builtinIssues(path, "requires", matchAllRequires(src, 1))
         \o (IF deno.matched
             THEN <<[path |-> path, kind |-> "uses", specifier |-> "Deno"]>>
             ELSE << >>),
       lastIndex |-> deno.lastIndex]

\* validateWebCompatibility(entryPoint) on the files of dirname(entryPoint)
\* that walk() yields, in the order it yields them; count is the number of
\* files read before.
RECURSIVE validateWebCompatibility(_, _, _, _)
validateWebCompatibility(files, entries, count, index) ==
  IF entries = << >> \/ count + 1 > ScanLimit
  THEN [issues |-> << >>, lastIndex |-> index]
  ELSE LET one  == scanFile(Head(entries), files[Head(entries)], index)
           rest == validateWebCompatibility(files, Tail(entries), count + 1,
                                            one.lastIndex)
       IN  [issues |-> one.issues \o rest.issues, lastIndex |-> rest.lastIndex]

\* The lines the scanned files are made of.
ImportBuiltin ==
  <<"import", " ", "x", " ", "from", " ", "'", "fs", "'", "\n">>
ImportBuiltinTight ==
  <<"import", "{", "x", "}", "from", "'", "fs", "'", "\n">>
ImportVscode ==
  <<"import", " ", "x", " ", "from", " ", "'", "vscode", "'", "\n">>
RequireBuiltin == <<"require", "(", "'", "fs", "'", ")", "\n">>
DenoCall       == <<"Deno", ".", "x", "\n">>

Lines == {ImportBuiltin, ImportBuiltinTight, ImportVscode, RequireBuiltin, DenoCall}

\* The source files of the scanned project: the entry file and one beside it.
ScanPaths == {EntryTs, ViewTsx}

\* The number of lines of a text, and of all the files together.
lineCount(src) == Cardinality({k \in DOMAIN src : src[k] = "\n"})

RECURSIVE lineTotal(_, _)
lineTotal(files, paths) ==
  IF paths = {} THEN 0
  ELSE LET p == CHOOSE q \in paths : TRUE
       IN  lineCount(files[p]) + lineTotal(files, paths \ {p})

\* A call of validateWebCompatibility during which walk() yields the files in
\* the order `order`.
Validate(order) ==
  /\ LET run == validateWebCompatibility(tree, order, 0, lastIndex)
     IN  /\ issues' = run.issues
         /\ lastIndex' = run.lastIndex
  /\ scanned' = [valid |-> TRUE, order |-> order, from |-> lastIndex]
  /\ previous' = IF scanned.valid
                 THEN [valid |-> TRUE, order |-> scanned.order, issues |-> issues]
                 ELSE NoPrevious
  /\ UNCHANGED <<tree, artifact, sourceMap, cacheRecord, frameVars, histVars, hashVars,
                 otherVars, walkVars>>

\* Between two scans a line is added at the end of a file.
AppendLine(path, line) ==
  /\ lineTotal(tree, DOMAIN tree) < MaxLines
  /\ tree' = [tree EXCEPT ![path] = @ \o line]
  /\ issues' = << >>
  /\ scanned' = NotScanned
  /\ previous' = NoPrevious
  /\ UNCHANGED <<lastIndex, artifact, sourceMap, cacheRecord, frameVars, histVars, hashVars,
                 otherVars, walkVars>>

\* Between two scans a file is emptied.
EmptyFile(path) ==
  /\ tree[path] # << >>
  /\ tree' = [tree EXCEPT ![path] = << >>]
  /\ issues' = << >>
  /\ scanned' = NotScanned
  /\ previous' = NoPrevious
  /\ UNCHANGED <<lastIndex, artifact, sourceMap, cacheRecord, frameVars, histVars, hashVars,
                 otherVars, walkVars>>

ScanInit ==
  /\ tree = [p \in ScanPaths |-> << >>]
  /\ artifact = NoFile
  /\ sourceMap = NoMap
  /\ cacheRecord = NoText
  /\ pc = "idle"
  /\ opts = DefaultOptions
  /\ currentHash = << >>
  /\ bundleCode = NoCode
  /\ messages = << >>
  /\ logged = << >>
  /\ errLogged = << >>
  /\ result = NoResult
  /\ trace = NoTrace
  /\ before = NoBefore
  /\ prev = NoPrev
  /\ last = NoLast
  /\ hashed = NotHashed
  /\ hashedBefore = NotHashed
  /\ mutation = NoMutation
  /\ lastIndex = 0
  /\ issues = << >>
  /\ scanned = NotScanned
  /\ previous = NoPrevious
  /\ other = NoOther
  /\ walking = NotWalking

ScanNext ==
  \/ \E order \in WalkOrders(tree) : Validate(order)
  \/ \E path \in ScanPaths, line \in Lines : AppendLine(path, line)
  \/ \E path \in ScanPaths : EmptyFile(path)

ScanSpec == ScanInit /\ [][ScanNext]_vars

\* ------------------------------------------- the scanner, file by file

\* if (++count > 1000) break, with the file read one iteration too late.
withinCeilingLate(count) == count <= ScanLimit

\* if (++count > 1000) break: whether the file walk() yields after `count`
\* files is read.
withinCeiling(count) == count + 1 <= ScanLimit

\* The trees of WalkSpec hold, beside the files of ScanPaths, `fill` empty
\* .ts files that walk() yields first; they are all alike.
FillerTs  == <<"f", ".", "t", "s">>
WalkFills == {0, ScanLimit - 2, ScanLimit - 1, ScanLimit}
WalkTexts == {<< >>, ImportBuiltin, RequireBuiltin, DenoCall}

\* The call of validateWebCompatibility, up to the first file walk() yields.
BeginScan(order, fill) ==
  /\ ~walking.active
  /\ walking' = [active |-> TRUE, ended |-> FALSE, order |-> order,
                 fill |-> fill, from |-> lastIndex, fillLeft |-> fill,
                 entries |-> order, count |-> 0, read |-> 0]
  /\ issues' = << >>
  /\ UNCHANGED <<fsVars, frameVars, histVars, hashVars, lastIndex, scanned,
                 previous, otherVars>>

\* One iteration of the loop, on an empty file.
ReadFiller ==
  /\ walking.active
  /\ walking.fillLeft > 0
  /\ withinCeiling(walking.count)
  /\ LET one == scanFile(FillerTs, << >>, lastIndex)
     IN  /\ issues' = issues \o one.issues
         /\ lastIndex' = one.lastIndex
  /\ walking' = [walking EXCEPT !.fillLeft = @ - 1, !.count = @ + 1,
                                !.read = @ + 1]
  /\ UNCHANGED <<fsVars, frameVars, histVars, hashVars, scanned, previous,
                 otherVars>>

\* One iteration of the loop, on the next file of the tree.
ReadEntry ==
  /\ walking.active
  /\ walking.fillLeft = 0
  /\ walking.entries # << >>
  /\ withinCeiling(walking.count)
  /\ LET path == Head(walking.entries)
         one  == scanFile(path, tree[path], lastIndex)
     IN  /\ issues' = issues \o one.issues
         /\ lastIndex' = one.lastIndex
  /\ walking' = [walking EXCEPT !.entries = Tail(@), !.count = @ + 1,
                                !.read = @ + 1]
  /\ UNCHANGED <<fsVars, frameVars, histVars, hashVars, scanned, previous,
                 otherVars>>

\* walk() yields a file beyond the ceiling: break, return issues.
CeilingHit ==
  /\ walking.active
  /\ walking.fillLeft > 0 \/ walking.entries # << >>
  /\ ~withinCeiling(walking.count)
  /\ walking' = [walking EXCEPT !.active = FALSE, !.ended = TRUE,
                                !.count = @ + 1]
  /\ UNCHANGED <<fsVars, frameVars, histVars, hashVars, scanVars, otherVars>>

\* walk() has no more files: return issues.
WalkExhausted ==
  /\ walking.active
  /\ walking.fillLeft = 0
  /\ walking.entries = << >>
  /\ walking' = [walking EXCEPT !.active = FALSE, !.ended = TRUE]
  /\ UNCHANGED <<fsVars, frameVars, histVars, hashVars, scanVars, otherVars>>

WalkInit ==
  /\ tree \in [ScanPaths -> WalkTexts]
  /\ artifact = NoFile
  /\ sourceMap = NoMap
  /\ cacheRecord = NoText
  /\ pc = "idle"
  /\ opts = DefaultOptions
  /\ currentHash = << >>
  /\ bundleCode = NoCode
  /\ messages = << >>
  /\ logged = << >>
  /\ errLogged = << >>
  /\ result = NoResult
  /\ trace = NoTrace
  /\ before = NoBefore
  /\ prev = NoPrev
  /\ last = NoLast
  /\ hashed = NotHashed
  /\ hashedBefore = NotHashed
  /\ mutation = NoMutation
  /\ lastIndex = 0
  /\ issues = << >>
  /\ scanned = NotScanned
  /\ previous = NoPrevious
  /\ other = NoOther
  /\ walking = NotWalking

\* The steps of a scan under way.
WalkSteps ==
  \/ ReadFiller
  \/ ReadEntry
  \/ CeilingHit
  \/ WalkExhausted

WalkNext ==
  \/ \E order \in WalkOrders(tree), fill \in WalkFills : BeginScan(order, fill)
  \/ WalkSteps

WalkSpec == WalkInit /\ [][WalkNext]_vars

\* The loop goes on whenever it can: walk() yields and the reads resolve.
FairWalkSpec == WalkSpec /\ WF_vars(WalkSteps)

\* ------------------------------------------------------------------ claims

\* What the specification calls an eligible file: a file with an allow-listed
\* extension that is not inside the output directory.
InOutputDir(path) ==
  startsWith(join(ProjectDir, path), join(ProjectDir, OutDirName) \o <<"/">>)

Eligible(path) == matchesSourceExt(join(ProjectDir, path)) /\ ~InOutputDir(path)

\* The fingerprint of a tree, its files taken in the order CHOOSE picks.
Fingerprint(files) ==
  computeProjectHash(files, CHOOSE o \in WalkOrders(files) : TRUE, OutDirName)

\* This invocation follows, with the same options and nothing edited in
\* between, one that returned a result and ran with useCache = true.
RoundTrip ==
  /\ pc = "done"
  /\ opts.useCache
  /\ prev.cached
  /\ prev.sameOpts
  /\ prev.edited = << >>

C2_EditForcesRebuild ==
  ( /\ pc = "done"
    /\ opts.useCache
    /\ trace.hashOk
    /\ prev.cached
    /\ prev.hashOk
    /\ prev.edited # << >>
    /\ Eligible(prev.edited) )
    => ~result.fromCache

\* C3: every invocation with useCache = false that returns a result returns
\* fromCache = false and a nonzero buildTimeMs.
C3_NoCacheRebuilds ==
  pc = "done" /\ ~opts.useCache
    => ~result.fromCache /\ result.buildTimeMs # 0

\* C4: when the bundle capability fails, the error is logged and surfaced,
\* no result is returned, and the artifact and the cache record are as they
\* were before the invocation.
C4_BundleFailureWritesNothing ==
  pc = "failed" /\ trace.thrownAt = "bundle"
    => /\ result = NoResult
       /\ errLogged # << >>
       /\ artifact = before.artifact
       /\ cacheRecord = before.cacheRecord
       /\ ~trace.wroteArtifact /\ ~trace.wroteRecord

C4_Witness ==
  /\ pc = "failed"
  /\ trace.thrownAt = "bundle"
  /\ opts.useCache
  /\ trace.readOk
  /\ before.artifact.exists
  /\ before.cacheRecord.exists

\* C5: with minify = true, if the selected minifier (esbuild or terser)
\* cannot be loaded, the invocation still returns a result, the artifact
\* holds the unminified bundle code and a warning is in messages.
C5_MinifierUnavailableDegrades ==
  trace.minifierMissing /\ pc \in {"done", "failed"}
    => /\ pc = "done"
       /\ artifact = fileOf([from |-> bundleCode.from, minified |-> FALSE])
       /\ \E i \in 1..Len(result.messages) : result.messages[i] = "terser unavailable"

\* C6: fromCache = true is returned only if in this invocation the cache
\* record was read, matched the fingerprint obtained, and the artifact was
\* found; a record that cannot be read or an artifact that cannot be stat'ed
\* leads to a rebuild, and the only errors surfaced are the build's.
C6_HitOnlyWhenVerified ==
  /\ pc = "done" /\ result.fromCache
       => /\ opts.useCache
          /\ trace.hashOk /\ trace.readOk /\ trace.matched /\ trace.statOk
          /\ currentHash = Fingerprint(tree)
          /\ cacheRecord.exists
          /\ trim(cacheRecord.text) = currentHash
          /\ artifact.exists
          /\ ~trace.bundled
  /\ pc = "done" /\ (~before.cacheRecord.exists \/ ~before.artifact.exists)
       => ~result.fromCache /\ trace.bundled /\ trace.wroteArtifact
  /\ pc = "failed" => trace.thrownAt \in {"bundle", "import", "transform"}

C6_Witness ==
  /\ pc = "done"
  /\ result.fromCache
  /\ cacheRecord.text # currentHash

C6_WitnessMiss ==
  /\ pc = "done"
  /\ opts.useCache
  /\ trace.readOk /\ trace.matched
  /\ ~before.artifact.exists

\* C7: under invocations and source edits only, whenever no invocation is
\* running the cache record, when present, is the fingerprint of the source
\* tree the artifact on disk was built from, and an invocation that returns
\* fromCache = true returns an artifact built from the current sources.
C7_RecordDescribesArtifact ==
  /\ Idle /\ cacheRecord.exists
       => artifact.exists /\ cacheRecord.text = Fingerprint(artifact.from)
  /\ pc = "done" /\ result.fromCache => artifact.from = tree

\* C8: in an invocation that writes the cache record, the artifact has been
\* written before: there is no state in which the invocation has written the
\* record and not yet the artifact.
C8_ArtifactBeforeRecord ==
  /\ trace.wroteRecord => trace.wroteArtifact /\ artifact = fileOf(bundleCode)
  /\ pc = "writeCache" => trace.wroteArtifact /\ artifact = fileOf(bundleCode)
  /\ pc = "writeArtifact" => ~trace.wroteRecord /\ cacheRecord = before.cacheRecord

C8_Witness ==
  /\ pc = "statNew"
  /\ trace.wroteRecord
  /\ before.cacheRecord.exists
  /\ cacheRecord # before.cacheRecord

\* C9: the fingerprint of a tree is the same in whatever order the walk
\* yields its files, and two calls with no mutation in between return equal
\* fingerprints.
C9_OrderIndependent ==
  hashed.valid /\ mutation.kind = "none"
    => /\ \A order \in WalkOrders(tree) :
            computeProjectHash(tree, order, OutDirName) = hashed.fp
       /\ hashedBefore.valid /\ hashed.after.kind = "none"
            => hashed.fp = hashedBefore.fp

C9_Witness ==
  /\ hashed.valid
  /\ hashedBefore.valid
  /\ hashed.after.kind = "none"
  /\ mutation.kind = "none"
  /\ \E p, q \in DOMAIN tree :
       /\ Eligible(p) /\ Eligible(q) /\ ~startsWith(p, OutDirName)
       /\ ~startsWith(q, OutDirName) /\ tree[p] # tree[q]

\* C10: changing the bytes of one eligible file, or adding or removing one
\* eligible file, changes the fingerprint (eligible: allow-listed extension,
\* not under the output directory).
C10_EligibleMutationChangesHash ==
  ( /\ hashed.valid
    /\ hashedBefore.valid
    /\ hashed.after.kind \in {"edit", "add", "remove"}
    /\ Eligible(hashed.after.path) )
    => hashed.fp # hashedBefore.fp

\* C11: adding, removing or modifying a file inside the output directory (a
\* generated source, the artifact, the source map, the cache record) leaves
\* the result of computeProjectHash unchanged.
C11_OutputDirIgnored ==
  ( /\ hashed.valid
    /\ hashedBefore.valid
    /\ hashed.after.kind \in {"edit", "add", "remove"}
    /\ InOutputDir(hashed.after.path) )
    => hashed.fp = hashedBefore.fp

C11_Witness ==
  /\ hashed.valid
  /\ hashedBefore.valid
  /\ hashed.after = [kind |-> "add", path |-> OutCache, to |-> << >>]
  /\ EntryTs \in DOMAIN tree

\* The lines of a text: the line breaks end them.
RECURSIVE linesOf(_, _)
linesOf(src, line) ==
  IF src = << >> THEN (IF line = << >> THEN << >> ELSE <<line>>)
  ELSE IF Head(src) = "\n" THEN <<Append(line, "\n")>> \o linesOf(Tail(src), << >>)
  ELSE linesOf(Tail(src), Append(line, Head(src)))

\* The static imports and the require calls among the lines, and the module
\* each names.
ImportStatements  == {ImportBuiltin, ImportBuiltinTight, ImportVscode}
RequireStatements == {RequireBuiltin}
moduleOf(line) ==
  IF line \in ImportStatements THEN line[Len(line) - 2] ELSE line[Len(line) - 3]

\* How many lines of src are statements of the set given that name a module
\* of the deny-list.
occurrences(src, statements) ==
  LET ls == linesOf(src, << >>)
  IN  Cardinality({k \in DOMAIN ls :
                     ls[k] \in statements /\ moduleOf(ls[k]) \in BUILTIN_SET})

\* The text holds a reference to the Deno namespace.
refersToDeno(src) == \E i \in DOMAIN src : DENO_NS_RE(src, i)

\* The issues of one kind returned for one file.
issuesFor(path, kind) ==
  {k \in DOMAIN issues : issues[k].path = path /\ issues[k].kind = kind}

\* The files the last scan read.
Scanned == {scanned.order[k] : k \in DOMAIN scanned.order}

\* C12: in every scan, every scanned file whose text holds a reference to
\* the Deno namespace gets exactly one privileged-namespace issue, however
\* often the reference occurs and whatever was scanned before.
C12_OneDenoIssuePerFile ==
  scanned.valid =>
    \A path \in Scanned :
      refersToDeno(tree[path]) => Cardinality(issuesFor(path, "uses")) = 1

\* C13: in every scan, every scanned file gets one issue for each static
\* import and one for each require call that names a module of the deny-list,
\* each naming that file and that module, both styles together; a file with
\* neither and with no reference to Deno gets no issue.
C13_OneIssuePerBuiltinUse ==
  scanned.valid =>
    \A path \in Scanned :
      /\ Cardinality(issuesFor(path, "imports"))
           = occurrences(tree[path], ImportStatements)
      /\ Cardinality(issuesFor(path, "requires"))
           = occurrences(tree[path], RequireStatements)
      /\ \A k \in issuesFor(path, "imports") \cup issuesFor(path, "requires") :
           issues[k].specifier \in BUILTIN_SET
      /\ ( /\ occurrences(tree[path], ImportStatements) = 0
           /\ occurrences(tree[path], RequireStatements) = 0
           /\ ~refersToDeno(tree[path]) )
           => \A k \in DOMAIN issues : issues[k].path # path

\* C17: a scan returns what a scan of the same files in the same order
\* returns when no scan ran before it, and two scans in a row of an unchanged
\* tree, its files walked in the same order, return the same issues.
C17_ScansIndependent ==
  scanned.valid =>
    /\ issues = validateWebCompatibility(tree, scanned.order, 0, 0).issues
    /\ previous.valid /\ previous.order = scanned.order
         => issues = previous.issues

HashWarning == "Failed to compute project hash"

\* C14: when computing the fingerprint fails, the invocation goes on: the
\* warning is in messages, the cache record is not read (so none matches, an
\* empty one included), the bundle is rebuilt and the cache record is left as
\* it was; an error surfaced is one of the build.
C14_HashFailureForcesRebuild ==
  pc \notin {"idle", "hash"} /\ ~trace.hashOk
    => /\ currentHash = << >>
       /\ messages # << >> /\ messages[1] = HashWarning
       /\ ~trace.readOk /\ ~trace.matched /\ ~trace.statOk
       /\ pc \notin {"readCache", "stat", "writeCache"}
       /\ ~trace.wroteRecord /\ cacheRecord = before.cacheRecord
       /\ pc = "done"
            => /\ ~result.fromCache
               /\ trace.bundled /\ trace.wroteArtifact
               /\ artifact = fileOf(bundleCode)
               /\ result.messages[1] = HashWarning
       /\ pc = "failed" => trace.thrownAt \in {"bundle", "import", "transform"}

C14_Witness ==
  /\ pc = "done"
  /\ ~trace.hashOk
  /\ opts.useCache
  /\ before.cacheRecord.exists
  /\ trim(before.cacheRecord.text) = << >>
  /\ before.artifact.exists

\* The messages the invocation has pushed so far, told from what it did and
\* from the options other than quiet.
MessagesSaid ==
  (IF ~trace.hashOk THEN <<HashWarning>> ELSE << >>)
  \o (IF trace.matched /\ opts.verbose THEN <<"No changes detected">> ELSE << >>)
  \o (IF trace.bundled /\ opts.minify /\ opts.verbose THEN <<"Minifying">> ELSE << >>)
  \o (IF trace.minifierMissing /\ opts.minifier = "terser"
      THEN <<"terser unavailable">> ELSE << >>)
  \o (IF pc = "done" /\ ~result.fromCache /\ opts.verbose
      THEN <<"Bundle size", "Build completed">> ELSE << >>)

\* The messages without the one that is pushed and never logged.
RECURSIVE withoutHashWarning(_)
withoutHashWarning(msgs) ==
  IF msgs = << >> THEN << >>
  ELSE (IF Head(msgs) = HashWarning THEN << >> ELSE <<Head(msgs)>>)
       \o withoutHashWarning(Tail(msgs))

C16_ResultNamesArtifact ==
  pc = "done"
    => /\ result.bundlePath = <<"/", "p", "/", "o", "u", "t", "/", "e", ".", "j", "s">>
       /\ ~result.fromCache
            => /\ artifact.exists
               /\ artifact = fileOf(bundleCode)
               /\ result.size = byteLength(artifact)

C16_Witness ==
  /\ pc = "done"
  /\ ~result.fromCache
  /\ before.artifact.exists
  /\ byteLength(before.artifact) # result.size

\* C18: an invocation that hits the cache has not called the bundler or a
\* minifier and has written nothing: the artifact, the source map and the
\* cache record are as they were when it started; it returns the size of that
\* artifact, buildTimeMs = 0 and fromCache = true.
C18_HitLeavesFilesAlone ==
  pc = "done" /\ trace.statOk
    => /\ ~trace.bundled /\ ~trace.minifierMissing /\ bundleCode = NoCode
       /\ ~trace.wroteMap /\ ~trace.wroteArtifact /\ ~trace.wroteRecord
       /\ artifact = before.artifact
       /\ sourceMap = before.sourceMap
       /\ cacheRecord = before.cacheRecord
       /\ result.size = byteLength(before.artifact)
       /\ result.buildTimeMs = 0
       /\ result.fromCache

C18_Witness ==
  /\ pc = "done"
  /\ trace.statOk
  /\ before.sourceMap.exists
  /\ before.cacheRecord.text # currentHash
  /\ opts.minify

\* C19: the cache record is written only by an invocation that runs with
\* useCache = true and obtained a fingerprint; one with useCache = false, or
\* whose hashing failed, leaves the cache record as it was, also when it
\* writes a new artifact.
C19_RecordWrittenOnlyWithFingerprint ==
  /\ trace.wroteRecord
       => opts.useCache /\ trace.hashOk /\ cacheRecord.text = currentHash
  /\ pc # "idle" /\ (~opts.useCache \/ ~trace.hashOk)
       => /\ cacheRecord = before.cacheRecord
          /\ ~trace.wroteRecord
          /\ pc # "writeCache"

C19_Witness ==
  /\ pc = "done"
  /\ ~opts.useCache
  /\ trace.hashOk
  /\ before.cacheRecord.exists
  /\ before.artifact.exists
  /\ artifact # before.artifact

\* The invocation read a cache record, having obtained a fingerprint.
RecordRead == pc = "done" /\ opts.useCache /\ trace.hashOk /\ trace.readOk

Informational ==
  {"No changes detected", "Minifying", "Bundle size", "Build completed"}

Said(msgs, msg) == \E i \in DOMAIN msgs : msgs[i] = msg

\* C23: an informational message is produced only with verbose = true; with
\* verbose = false a build that hashed and found its minifier returns no
\* message; with verbose = true a rebuild's messages end with "Bundle size"
\* followed by "Build completed".
C23_InformationalOnlyWhenVerbose ==
  /\ (\E msg \in Informational : Said(messages, msg) \/ Said(logged, msg))
       => opts.verbose
  /\ pc = "done" /\ ~opts.verbose /\ trace.hashOk /\ ~trace.minifierMissing
       => result.messages = << >>
  /\ pc = "done" /\ opts.verbose /\ ~result.fromCache
       => /\ Len(result.messages) >= 2
          /\ result.messages[Len(result.messages) - 1] = "Bundle size"
          /\ result.messages[Len(result.messages)] = "Build completed"

C23_Witness ==
  /\ pc = "done"
  /\ opts.verbose
  /\ opts.minify
  /\ ~result.fromCache
  /\ Len(result.messages) = 3

\* C24: the notice "No changes detected. Using cached build." is in the
\* messages of a result, or was sent to the log sink, only when the
\* invocation returns fromCache = true.
C24_CachedNoticeOnlyOnHit ==
  pc = "done"
    /\ (Said(result.messages, "No changes detected") \/ Said(logged, "No changes detected"))
    => result.fromCache

\* C27: with quiet = false the messages of a result are the messages passed
\* to the log sink during the invocation, in the same order.
C27_MessagesAreTheLog ==
  pc = "done" /\ ~opts.quiet => result.messages = logged

\* C25: with the source tree unchanged throughout, an invocation that
\* returns fromCache = true returns the artifact a rebuild with its own
\* options would write: unminified code without minify, and with minify by
\* esbuild minified code beside its source map.
C25_HitServesCurrentOptions ==
  pc = "done" /\ result.fromCache
    => /\ ~opts.minify => ~artifact.minified
       /\ opts.minify /\ opts.minifier = "esbuild"
            => artifact.minified /\ sourceMap.exists

\* C26: renaming or moving an eligible file to another eligible path, or
\* exchanging the contents of two eligible files, leaves the fingerprint
\* unchanged (eligible: allow-listed extension, not under the output
\* directory).
C26_PathsDoNotMatter ==
  ( /\ hashed.valid
    /\ hashedBefore.valid
    /\ hashed.after.kind \in {"rename", "swap"}
    /\ Eligible(hashed.after.path)
    /\ Eligible(hashed.after.to) )
    => hashed.fp = hashedBefore.fp

\* C28: the fingerprint a build writes to the cache record is the
\* fingerprint of the source tree its bundle step read, also when source
\* files are edited while the invocation is suspended between hashing and
\* bundling.
C28_RecordIsOfTheTreeBundled ==
  trace.wroteRecord => cacheRecord.text = Fingerprint(bundleCode.from)

\* What the invocation returns when nothing else runs between its call and
\* its return: a hit exactly when the record it found is the fingerprint of
\* the tree it found and the artifact was there.
HitAlone ==
  /\ before.cacheRecord.exists
  /\ recordMatches(before.cacheRecord.text, Fingerprint(before.tree))
  /\ before.artifact.exists

\* C22: an invocation interleaved with an invocation on another
\* project/output pair returns the same result and leaves the same files as
\* it would if run alone: with a fingerprint and the cache on, it returns a
\* hit exactly when it would alone, and the record it writes is the
\* fingerprint of the tree it was called on.
C22_IndependentOfOtherPair ==
  /\ pc = "done" /\ opts.useCache /\ trace.hashOk
       => (result.fromCache <=> HitAlone)
  /\ pc = "done" /\ trace.wroteRecord
       => cacheRecord.text = Fingerprint(before.tree)

\* The files of the tree among the first ScanLimit files of the walk.
firstFiles ==
  LET room == IF walking.fill >= ScanLimit THEN 0 ELSE ScanLimit - walking.fill
  IN  SubSeq(walking.order, 1,
             IF Len(walking.order) <= room THEN Len(walking.order) ELSE room)

\* The issues of those files, each scanned once, after the empty ones.
firstIssues ==
  validateWebCompatibility(tree, firstFiles, 0,
                           IF walking.fill > 0 THEN 0 ELSE walking.from).issues

C21_AtMostCeiling ==
  /\ walking.read <= ScanLimit
  /\ walking.ended =>
       /\ walking.read = walking.fill + Len(firstFiles)
       /\ walking.entries = SubSeq(walking.order, Len(firstFiles) + 1,
                                   Len(walking.order))
       /\ issues = firstIssues

\* C21: a scan reads at most ScanLimit (1000) files; when the ceiling is hit
\* it stops without reading another file and returns the issues of the first
\* 1000 files in enumeration order; and every scan that begins returns.
C21_CeilingStopsTheScan ==
  /\ []C21_AtMostCeiling
  /\ walking.active ~> walking.ended

C21_Witness ==
  /\ walking.ended
  /\ walking.count = ScanLimit + 1
  /\ walking.read = ScanLimit
  /\ walking.entries # << >>
  /\ issues # << >>

====
